---- MODULE Spec2Model ----
(***************************************************************************)
(* EPON network agent: the telemetry parser (agents/parsing_agent.py) and  *)
(* the background cache worker (background/telemetry_cache_worker.py) with *)
(* its reader (agents/root_agent.py), the raw record store                 *)
(* (db/netconf_log.py), the rule classifier (agents/compliance_agent.py)   *)
(* and the writers of the log file (netconf_generator.py).                 *)
(*                                                                         *)
(* Python's Optional values are sequences: None is <<>> and a value v is   *)
(* <<v>>.                                                                  *)
(***************************************************************************)
EXTENDS Integers, Sequences, FiniteSets, TLC

\* ------------------------------------------------------------- bounds
\* Longest record store content (records) the worker model explores.
MaxStore == 1
\* Longest record store content the worker model explores in SpecFinger.
MaxFingerStore == 3
\* Last value of the clock: the worker sleeps at most MaxClock times.
MaxClock == 2
\* Calls of start_background_worker explored by SpecMulti.
MaxStarts == 2
\* Longest batch (record blocks) given to parse_telemetry_log.
MaxBlocks == 6
\* Longest batch of SpecBatch, which draws from more kinds of blocks.
MaxBatch == 3
\* Records written to the log file in SpecStore.
MaxWrites == 45
\* Records written to the log file in SpecRace.
MaxRaceWrites == 3

\* ---------------------------------------------------- program constants
\* parse_telemetry_log keeps events[-5:] per ONU.
HISTORY == 5
\* update_cache and fetch_and_parse_with_agent fetch count=100 records.
FETCH_COUNT == 100

\* ------------------------------------------------------------ Optional
None == <<>>
Some(v) == <<v>>
Val(o) == o[1]

Min(a, b) == IF a < b THEN a ELSE b

\* ------------------------------------------------------------- parser
\* The numeric elements of a record, by the key the event gets for them.
NumericFields == {"rx_power_dBm", "snr_dB", "ber_pre_fec", "ber_post_fec",
                  "temperature"}
\* A record without numeric elements.
NoNumbers == [f \in NumericFields |-> None]

\* A record block of the raw log. wf: the markup is well formed once the
\* block stands between "<notification" and "</notification>"; closed: the
\* block ends with its "</notification>". An element is None when the
\* block has no such element and Some(text) when it has, with "" for an
\* element without text; eventTime also says how many child elements it has.
Notification(wf, closed, et, olt, onu, qot) ==
    [wf |-> wf, closed |-> closed, eventTime |-> et, olt |-> olt,
     onu |-> onu, qot |-> qot]
\* A closed block without eventTime and numeric elements.
Block(wf, olt, onu) == Notification(wf, TRUE, None, olt, onu, NoNumbers)

\* Element.text: None for an element without text.
ElemText(e) == IF Val(e) = "" THEN None ELSE Some(Val(e))

\* str(x) of an Optional text: str(None) is the text "None".
PyStr(t) == IF t = None THEN "None" ELSE Val(t)

\* "if event_time_elem:": an Element is true when it has child elements.
ElementTruthy(e) == e.kids > 0

\* float(t) of the texts the model writes into numeric elements, in tenths;
\* float raises ValueError for any other text.
NumericTexts == {"-22.0", "-29.5"}
PyFloat(t) == IF t = "-22.0" THEN -220 ELSE -295

\* "rx.text if rx is not None else None"
FieldText(e) == IF e = None THEN None ELSE ElemText(e)
\* _to_float: float(t) if t else None
ToFloatRaises(t) == t # None /\ Val(t) \notin NumericTexts
to_float(t) == IF t = None THEN None ELSE Some(PyFloat(Val(t)))

\* _parse_single_record raises ValueError: the markup parses and _to_float
\* meets a text float() rejects.
RecordRaises(b) ==
    /\ b.wf
    /\ \E f \in NumericFields : ToFloatRaises(FieldText(b.qot[f]))

\* _parse_single_record: None on ET.ParseError, else the event.
parse_single_record(b) ==
    IF ~b.wf THEN None
    ELSE Some([timestamp |-> IF b.eventTime # None
                                /\ ElementTruthy(Val(b.eventTime))
                             THEN ElemText(Some(Val(b.eventTime).text))
                             ELSE None,
               olt_id |-> IF b.olt # None THEN ElemText(b.olt) ELSE None,
               onu_id |-> IF b.onu # None THEN Some(PyStr(ElemText(b.onu)))
                          ELSE None,
               qot |-> [f \in NumericFields |-> to_float(FieldText(b.qot[f]))]])

\* "if event and event.get('onu_id')": the event is kept.
Survives(b) ==
    LET ev == parse_single_record(b)
    IN  ev # None /\ Val(ev).onu_id # None /\ Val(Val(ev).onu_id) # ""

\* raw_log.split("</notification>"): the block at position i is a piece of
\* its own when the block before it is closed and it is closed or the last
\* one (the closing tag is added to every piece). Any other block is in a
\* piece that starts with an unclosed block, which ET.fromstring rejects.
Alone(blocks, i) ==
    /\ i = 1 \/ blocks[i - 1].closed
    /\ blocks[i].closed \/ i = Len(blocks)

\* The positions whose block is handed to _parse_single_record on its own.
Pieces(blocks) ==
    SelectSeq([i \in 1..Len(blocks) |-> i], LAMBDA i : Alone(blocks, i))

\* parse_telemetry_log raises: _parse_single_record raises for a piece.
ParseRaises(blocks) ==
    \E i \in 1..Len(blocks) : Alone(blocks, i) /\ RecordRaises(blocks[i])

\* parsed_events: the events of the surviving blocks, in input order.
ParsedEvents(blocks) ==
    LET kept == SelectSeq(Pieces(blocks), LAMBDA i : Survives(blocks[i]))
    IN  [k \in 1..Len(kept) |-> Val(parse_single_record(blocks[kept[k]]))]

\* grouped[oid]: the events of one ONU, in input order.
EventOid(ev) == Val(ev.onu_id)
Grouped(events, oid) == SelectSeq(events, LAMBDA ev : EventOid(ev) = oid)

\* events[:5], a plausible slip for events[-5:].
KeepFirst(events) == SubSeq(events, 1, Min(HISTORY, Len(events)))
\* events[-5:]
KeepLast(events) ==
    IF Len(events) > HISTORY
    THEN SubSeq(events, Len(events) - HISTORY + 1, Len(events))
    ELSE events

\* The mapping parse_telemetry_log returns for the blocks of raw_log: ONU id
\* -> last 5 events.
parse_telemetry_log(blocks) ==
    LET events == ParsedEvents(blocks)
        oids == {EventOid(events[i]) : i \in 1..Len(events)}
    IN  [oid \in oids |-> KeepLast(Grouped(events, oid))]

\* A call of parse_telemetry_log ends: it returns the mapping or raises.
Raised == <<"raised", "ValueError">>
ParseOutcome(blocks) ==
    IF ParseRaises(blocks) THEN Raised ELSE Some(parse_telemetry_log(blocks))

\* -------------------------------------------------------------- state
VARIABLES
    \* db/epon_netconf_telemetry.log: its complete records, oldest first
    store,
    \* time.time()
    now,
    \* _global_parsed_cache, _cache_timestamp, _last_processed_record_hash
    global_parsed_cache, cache_timestamp, last_processed_record_hash,
    \* cache/parsed_telemetry.json
    cache_file,
    \* calls of start_background_worker in this process, and how many the
    \* specification allows
    started, maxStarts,
    \* per worker thread: position, "in the initial update_cache() of
    \* cache_worker_loop", update_cache's records and parsed_data
    pc, first, records, parsed_data,
    \* the reader get_cached_telemetry_data: position and global_cache
    rpc, global_cache,
    \* history (written, never read by the program):
    \* load_cache_from_file restored a snapshot in this process
    warm,
    \* per worker, of its last cycle: the outcome, what the file write did,
    \* whether it fingerprinted the batch the cycle before it did, and the
    \* stored fingerprint when the cycle began
    outcome, wrote, repeat, hashAtStart,
    \* the batch fingerprinted by the latest cycle of this process, None
    \* when that cycle fingerprinted none
    lastBatch,
    \* the last completely published (data, captured_at), and the one that
    \* was published when the reader read the data
    published, rSnap,
    \* a cycle of this process ended Persisted
    persistedOnce,
    \* the in-memory (data, captured_at, fingerprint) at the time the cache
    \* file's content was written, None for no readable file
    fileMem,
    \* the fingerprinted batch of the last cycle whose parse gave no data,
    \* None when the last parse gave data
    failedParse,
    \* the parser's input blocks and its result, and the longest input the
    \* specification allows
    raw_log, parse_result, batchLimit,
    \* check_ieee_8023_compliance: its argument, its position, its locals
    \* and the is_abnormal and health it returns
    event, cpc, likely_layer, severity, causes, actions, notes, is_abnormal,
    health,
    \* db/epon_netconf_telemetry.log line by line, the number of records
    \* written to it so far, and the most the specification allows
    log_file, writes, writeLimit,
    \* the arguments of the last call of get_latest_netconf_records and the
    \* list it returned
    read_call, read_result,
    \* append_to_log step by step: its position and its local lines, and the
    \* file's content when it opened the file for writing
    apc, lines, before

workerVars == <<store, now, global_parsed_cache, cache_timestamp,
                last_processed_record_hash, cache_file, started, maxStarts,
                pc, first, records, parsed_data, rpc, global_cache, warm,
                outcome, wrote, repeat, hashAtStart, lastBatch, published,
                rSnap, persistedOnce, fileMem, failedParse>>
parserVars == <<raw_log, parse_result, batchLimit>>
complianceVars == <<event, cpc, likely_layer, severity, causes, actions,
                    notes, is_abnormal, health>>
storeVars == <<log_file, writes, writeLimit, read_call, read_result, apc,
               lines, before>>
vars == <<workerVars, parserVars, complianceVars, storeVars>>

Workers == 1..MaxStarts

\* The records written to the store: one of ONU 1 and one of ONU 2.
StoreRecords == {Block(TRUE, Some("OLT-01"), Some("1")),
                 Block(TRUE, Some("OLT-01"), Some("2"))}

\* get_latest_netconf_records(count, onu_id=None): records[-count:]
get_latest_netconf_records(count) ==
    IF Len(store) > count
    THEN SubSeq(store, Len(store) - count + 1, Len(store))
    ELSE store

\* A digest of every record of the batch, a plausible slip.
compute_data_hash_all(recs) == IF recs = <<>> THEN "" ELSE recs
\* compute_data_hash: md5(records[0] + records[-1]), "" for no records. The
\* digest is modelled by the pair of records it is computed from.
compute_data_hash(recs) ==
    IF recs = <<>> THEN "" ELSE <<recs[1], recs[Len(recs)]>>

\* Python truthiness of an Optional dict: not None and not empty.
Truthy(d) == d # None /\ DOMAIN Val(d) # {}

\* The cache file: absent, unreadable as JSON, or a JSON object.
NoFile == [kind |-> "absent"]
CorruptFile == [kind |-> "corrupt"]
JsonFile(obj) == [kind |-> "json", obj |-> obj]

\* time.strftime("%Y-%m-%dT%H:%M:%SZ", time.gmtime(t))
TimestampIso(t) == <<"iso", t>>

\* cache_obj with the hash of the file's previous content, a plausible slip.
cache_obj_stale_hash(pd) ==
    [parsed_data |-> pd,
     timestamp |-> cache_timestamp,
     timestamp_iso |-> TimestampIso(Val(cache_timestamp)),
     data_hash |-> IF cache_file.kind = "json" THEN cache_file.obj.data_hash
                   ELSE None]
\* cache_obj of save_cache_to_file(parsed_data), as json.dump writes it and
\* json.load reads it back: str keys, numbers and null round-trip unchanged.
cache_obj(pd) ==
    [parsed_data |-> pd,
     timestamp |-> cache_timestamp,
     timestamp_iso |-> TimestampIso(Val(cache_timestamp)),
     data_hash |-> last_processed_record_hash]

WorkerInit ==
    /\ store = <<>>
    /\ now = 0
    /\ global_parsed_cache = None
    /\ cache_timestamp = None
    /\ last_processed_record_hash = None
    /\ cache_file = NoFile
    /\ started = 0
    /\ pc = [w \in Workers |-> "off"]
    /\ first = [w \in Workers |-> FALSE]
    /\ records = [w \in Workers |-> <<>>]
    /\ parsed_data = [w \in Workers |-> None]
    /\ rpc = "idle"
    /\ global_cache = None
    /\ warm = FALSE
    /\ outcome = [w \in Workers |-> "none"]
    /\ wrote = [w \in Workers |-> "none"]
    /\ repeat = [w \in Workers |-> FALSE]
    /\ hashAtStart = [w \in Workers |-> None]
    /\ lastBatch = None
    /\ published = <<None, None>>
    /\ rSnap = <<None, None>>
    /\ persistedOnce = FALSE
    /\ fileMem = None
    /\ failedParse = None

ParserIdle == raw_log = <<>> /\ parse_result = None /\ batchLimit = MaxBlocks

\* Lines 34-38 of check_ieee_8023_compliance: its locals at the start;
\* is_abnormal and health are not assigned yet.
ComplianceLocals ==
    /\ likely_layer = "Unknown"
    /\ severity = "info"
    /\ causes = <<>>
    /\ actions = <<>>
    /\ notes = <<>>
    /\ is_abnormal = FALSE
    /\ health = "unassigned"

\* An event without any field, and the classifier not called.
NoEvent ==
    [rx |-> None, ber_pre |-> None, snr |-> None, temp |-> None,
     qot_degrade |-> None, dsp_state |-> None]
ComplianceIdle == event = NoEvent /\ cpc = "idle" /\ ComplianceLocals

\* get_latest_netconf_records has not been called.
NoCall == [count |-> 0, onu_id |-> None, called |-> FALSE]
\* The log file does not exist yet, nothing reads it and nothing writes it.
StoreIdle ==
    /\ log_file = <<>> /\ writes = 0
    /\ read_call = NoCall /\ read_result = <<>>
    /\ apc = "idle" /\ lines = <<>> /\ before = <<>>
StoreEmpty == StoreIdle /\ writeLimit = MaxWrites

\* ------------------------------------------------- the record store
\* append_to_log (netconf_generator.py): the record is appended and the log
\* is cut to its newest lines; MaxStore records fit the line budget.
AppendWithin(r, limit) ==
    /\ store' = IF Len(store) < limit THEN Append(store, r)
                ELSE Append(Tail(store), r)
    /\ UNCHANGED <<now, global_parsed_cache, cache_timestamp,
                   last_processed_record_hash, cache_file, started,
                   maxStarts, pc, first, records, parsed_data, rpc,
                   global_cache, warm, outcome, wrote, lastBatch, repeat,
                   hashAtStart, published, rSnap, persistedOnce, fileMem,
                   failedParse, raw_log, parse_result, batchLimit, event,
                   cpc, likely_layer, severity, causes, actions, notes,
                   is_abnormal, health, log_file, writes, writeLimit,
                   read_call, read_result, apc, lines, before>>
AppendToLog(r) == AppendWithin(r, MaxStore)

\* inject_degraded_signal / inject_normal_signal (the /inject route): the
\* record is appended, nothing is cut.
InjectWithin(r, limit) ==
    /\ Len(store) < limit
    /\ store' = Append(store, r)
    /\ UNCHANGED <<now, global_parsed_cache, cache_timestamp,
                   last_processed_record_hash, cache_file, started,
                   maxStarts, pc, first, records, parsed_data, rpc,
                   global_cache, warm, outcome, wrote, lastBatch, repeat,
                   hashAtStart, published, rSnap, persistedOnce, fileMem,
                   failedParse, raw_log, parse_result, batchLimit, event,
                   cpc, likely_layer, severity, causes, actions, notes,
                   is_abnormal, health, log_file, writes, writeLimit,
                   read_call, read_result, apc, lines, before>>
InjectSignal(r) == InjectWithin(r, MaxStore)

\* ------------------------------------------------------ worker startup
\* load_cache_from_file: the three globals after it. A missing file and a
\* file json.load cannot read leave them alone; otherwise each is the
\* object's field (data.get).
LoadedCache ==
    IF cache_file.kind = "json" THEN cache_file.obj.parsed_data
    ELSE global_parsed_cache
LoadedTimestamp ==
    IF cache_file.kind = "json" THEN cache_file.obj.timestamp
    ELSE cache_timestamp
LoadedHash ==
    IF cache_file.kind = "json" THEN cache_file.obj.data_hash
    ELSE last_processed_record_hash

\* start_background_worker: load_cache_from_file(), then the worker thread
\* is started and runs cache_worker_loop.
StartBackgroundWorker ==
    /\ started < maxStarts
    /\ LET w == started + 1
       IN  /\ pc[w] = "off"
           /\ pc' = [pc EXCEPT ![w] = "fetch"]
           /\ first' = [first EXCEPT ![w] = TRUE]
    /\ started' = started + 1
    /\ global_parsed_cache' = LoadedCache
    /\ cache_timestamp' = LoadedTimestamp
    /\ last_processed_record_hash' = LoadedHash
    /\ published' = <<LoadedCache, LoadedTimestamp>>
    /\ warm' = (warm \/ cache_file.kind = "json")
    /\ UNCHANGED <<store, now, cache_file, maxStarts, records, parsed_data,
                   rpc, global_cache, outcome, wrote, lastBatch, repeat,
                   hashAtStart, rSnap, persistedOnce, fileMem, failedParse,
                   raw_log, parse_result, batchLimit, event, cpc,
                   likely_layer, severity, causes, actions, notes,
                   is_abnormal, health, log_file, writes, writeLimit,
                   read_call, read_result, apc, lines, before>>

\* The process ends and is started again: the module globals and the
\* threads are gone, the files stay.
Restart ==
    /\ started > 0
    /\ global_parsed_cache' = None
    /\ cache_timestamp' = None
    /\ last_processed_record_hash' = None
    /\ started' = 0
    /\ pc' = [w \in Workers |-> "off"]
    /\ first' = [w \in Workers |-> FALSE]
    /\ records' = [w \in Workers |-> <<>>]
    /\ parsed_data' = [w \in Workers |-> None]
    /\ rpc' = "idle"
    /\ global_cache' = None
    /\ warm' = FALSE
    /\ outcome' = [w \in Workers |-> "none"]
    /\ wrote' = [w \in Workers |-> "none"]
    /\ repeat' = [w \in Workers |-> FALSE]
    /\ hashAtStart' = [w \in Workers |-> None]
    /\ lastBatch' = None
    /\ published' = <<None, None>>
    /\ rSnap' = <<None, None>>
    /\ persistedOnce' = FALSE
    /\ failedParse' = None
    /\ UNCHANGED <<store, now, cache_file, maxStarts, fileMem, raw_log,
                   parse_result, batchLimit, event, cpc, likely_layer,
                   severity, causes, actions, notes, is_abnormal, health,
                   log_file, writes, writeLimit, read_call, read_result,
                   apc, lines, before>>

\* --------------------------------------------------------- update_cache
\* update_cache returns (raised = FALSE) or an exception leaves it: the
\* initial call of cache_worker_loop is outside its try, the calls of the
\* loop are inside it. Its locals are gone.
EndCycle(w, out, raised) ==
    /\ outcome' = [outcome EXCEPT ![w] = out]
    /\ pc' = [pc EXCEPT ![w] = IF ~raised THEN "sleep"
                               ELSE IF first[w] THEN "dead" ELSE "caught"]
    /\ records' = [records EXCEPT ![w] = <<>>]
    /\ parsed_data' = [parsed_data EXCEPT ![w] = None]
    /\ persistedOnce' = (persistedOnce \/ out = "Persisted")

\* Step 1, raising: get_latest_netconf_records raises, "except Exception"
\* of update_cache returns.
FetchRaises(w) ==
    /\ pc[w] = "fetch"
    /\ EndCycle(w, "Failed", FALSE)
    /\ lastBatch' = None
    /\ hashAtStart' = [hashAtStart EXCEPT ![w] = last_processed_record_hash]
    /\ UNCHANGED <<store, now, global_parsed_cache, cache_timestamp,
                   last_processed_record_hash, cache_file, started,
                   maxStarts, first, rpc, global_cache, warm, wrote, repeat,
                   published, rSnap, fileMem, failedParse, raw_log,
                   parse_result, batchLimit, event, cpc, likely_layer,
                   severity, causes, actions, notes, is_abnormal, health,
                   log_file, writes, writeLimit, read_call, read_result,
                   apc, lines, before>>

\* Step 1: records = get_latest_netconf_records(count=100); no records ends
\* the cycle.
Fetch(w) ==
    /\ pc[w] = "fetch"
    /\ LET recs == get_latest_netconf_records(FETCH_COUNT)
       IN  IF recs = <<>>
           THEN /\ EndCycle(w, "Failed", FALSE)
                /\ lastBatch' = None
           ELSE /\ records' = [records EXCEPT ![w] = recs]
                /\ pc' = [pc EXCEPT ![w] = "fingerprint"]
                /\ UNCHANGED <<outcome, parsed_data, persistedOnce,
                               lastBatch>>
    /\ hashAtStart' = [hashAtStart EXCEPT ![w] = last_processed_record_hash]
    /\ UNCHANGED <<store, now, global_parsed_cache, cache_timestamp,
                   last_processed_record_hash, cache_file, started,
                   maxStarts, first, rpc, global_cache, warm, wrote, repeat,
                   published, rSnap, fileMem, failedParse, raw_log,
                   parse_result, batchLimit, event, cpc, likely_layer,
                   severity, causes, actions, notes, is_abnormal, health,
                   log_file, writes, writeLimit, read_call, read_result,
                   apc, lines, before>>

\* has_new_data forgetting to store the new hash, a plausible slip.
StoredHashKept(h) == last_processed_record_hash
\* has_new_data, lines 69 and 74: _last_processed_record_hash = current_hash
StoredHash(h) == Some(h)

\* has_new_data's answer for current_hash h.
IsNewData(h) ==
    \/ last_processed_record_hash = None
    \/ h # Val(last_processed_record_hash)

\* Step 2: has_new_data(records). Unchanged ends the cycle, new data stores
\* the hash and goes on to parsing.
HasNewData(w) ==
    /\ pc[w] = "fingerprint"
    /\ LET h == compute_data_hash(records[w])
       IN  IF IsNewData(h)
           THEN /\ last_processed_record_hash' = StoredHash(h)
                /\ pc' = [pc EXCEPT ![w] = "parse"]
                /\ UNCHANGED <<outcome, records, parsed_data, persistedOnce>>
           ELSE /\ EndCycle(w, "Unchanged", FALSE)
                /\ UNCHANGED last_processed_record_hash
    /\ lastBatch' = Some(records[w])
    /\ repeat' = [repeat EXCEPT ![w] = (lastBatch = Some(records[w]))]
    /\ UNCHANGED <<store, now, global_parsed_cache, cache_timestamp,
                   cache_file, started, maxStarts, first, rpc, global_cache,
                   warm, wrote, hashAtStart, published, rSnap, fileMem,
                   failedParse, raw_log, parse_result, batchLimit, event,
                   cpc, likely_layer, severity, causes, actions, notes,
                   is_abnormal, health, log_file, writes, writeLimit,
                   read_call, read_result, apc, lines, before>>

\* "if parsed_data:" without the test, a plausible slip.
ShouldSaveAlways(pd) == TRUE
\* update_cache, line 262: "if parsed_data:"
ShouldSave(pd) == Truthy(pd)

\* fetch_and_parse_with_agent: what it returns when it fetched recs and the
\* agent did (agentOk) or did not hand back the tool's result.
AgentResult(recs, agentOk) ==
    IF recs = <<>> \/ ~agentOk \/ ParseRaises(recs) THEN None
    ELSE LET res == Some(parse_telemetry_log(recs))
         IN  IF Truthy(res) THEN res ELSE None

\* Step 4: parsed_data = asyncio.run(fetch_and_parse_with_agent()), which
\* fetches the records again; then "if parsed_data:".
FetchAndParse(w) ==
    /\ pc[w] = "parse"
    /\ \E agentOk \in BOOLEAN :
         LET recs == get_latest_netconf_records(FETCH_COUNT)
             pd == AgentResult(recs, agentOk)
         IN  IF ShouldSave(pd)
             THEN /\ parsed_data' = [parsed_data EXCEPT ![w] = pd]
                  /\ pc' = [pc EXCEPT ![w] = "save"]
                  /\ failedParse' = None
                  /\ UNCHANGED <<outcome, records, persistedOnce>>
             ELSE /\ EndCycle(w, "Failed", FALSE)
                  /\ failedParse' = Some(records[w])
    /\ UNCHANGED <<store, now, global_parsed_cache, cache_timestamp,
                   last_processed_record_hash, cache_file, started,
                   maxStarts, first, rpc, global_cache, warm, wrote,
                   lastBatch, repeat, hashAtStart, published, rSnap,
                   fileMem, raw_log, parse_result, batchLimit, event, cpc,
                   likely_layer, severity, causes, actions, notes,
                   is_abnormal, health, log_file, writes, writeLimit,
                   read_call, read_result, apc, lines, before>>

\* --------------------------------------------------- save_cache_to_file
\* CACHE_DIR.mkdir raises (line 105, outside any try): the exception leaves
\* save_cache_to_file and update_cache.
SaveMkdirRaises(w) ==
    /\ pc[w] = "save"
    /\ EndCycle(w, "Raised", TRUE)
    /\ UNCHANGED <<store, now, global_parsed_cache, cache_timestamp,
                   last_processed_record_hash, cache_file, started,
                   maxStarts, first, rpc, global_cache, warm, wrote,
                   lastBatch, repeat, hashAtStart, published, rSnap,
                   fileMem, failedParse, raw_log, parse_result, batchLimit,
                   event, cpc, likely_layer, severity, causes, actions,
                   notes, is_abnormal, health, log_file, writes, writeLimit,
                   read_call, read_result, apc, lines, before>>

\* Line 107: _global_parsed_cache = parsed_data
SaveData(w) ==
    /\ pc[w] = "save"
    /\ global_parsed_cache' = parsed_data[w]
    /\ pc' = [pc EXCEPT ![w] = "stamp"]
    /\ UNCHANGED <<store, now, cache_timestamp, last_processed_record_hash,
                   cache_file, started, maxStarts, first, records,
                   parsed_data, rpc, global_cache, warm, outcome, wrote,
                   lastBatch, repeat, hashAtStart, published, rSnap,
                   persistedOnce, fileMem, failedParse, raw_log,
                   parse_result, batchLimit, event, cpc, likely_layer,
                   severity, causes, actions, notes, is_abnormal, health,
                   log_file, writes, writeLimit, read_call, read_result,
                   apc, lines, before>>

\* Line 108: _cache_timestamp = time.time(); the snapshot is complete.
SaveStamp(w) ==
    /\ pc[w] = "stamp"
    /\ cache_timestamp' = Some(now)
    /\ published' = <<global_parsed_cache, Some(now)>>
    /\ pc' = [pc EXCEPT ![w] = "write"]
    /\ UNCHANGED <<store, now, global_parsed_cache,
                   last_processed_record_hash, cache_file, started,
                   maxStarts, first, records, parsed_data, rpc,
                   global_cache, warm, outcome, wrote, lastBatch, repeat,
                   hashAtStart, rSnap, persistedOnce, fileMem, failedParse,
                   raw_log, parse_result, batchLimit, event, cpc,
                   likely_layer, severity, causes, actions, notes,
                   is_abnormal, health, log_file, writes, writeLimit,
                   read_call, read_result, apc, lines, before>>

\* save_cache_to_file without its try/except, a plausible slip.
SaveLetsWriteErrorEscape == FALSE
\* Lines 117-122: the write is inside try/except Exception.
SaveCatchesWriteError == TRUE

\* Lines 110-122: cache_obj is built and written. The write succeeds, fails
\* before the file is touched, or fails after open(.., 'w') truncated it.
SaveWrite(w) ==
    /\ pc[w] = "write"
    /\ \E res \in {"ok", "untouched", "truncated"} :
         /\ cache_file' = CASE res = "ok" -> JsonFile(cache_obj(parsed_data[w]))
                            [] res = "untouched" -> cache_file
                            [] res = "truncated" -> CorruptFile
         /\ fileMem' = CASE res = "ok" -> Some(<<global_parsed_cache,
                                  cache_timestamp, last_processed_record_hash>>)
                         [] res = "untouched" -> fileMem
                         [] res = "truncated" -> None
         /\ wrote' = [wrote EXCEPT ![w] = IF res = "ok" THEN "ok" ELSE "failed"]
         /\ IF res # "ok" /\ ~SaveCatchesWriteError
            THEN EndCycle(w, "Raised", TRUE)
            ELSE EndCycle(w, "Persisted", FALSE)
    /\ UNCHANGED <<store, now, global_parsed_cache, cache_timestamp,
                   last_processed_record_hash, started, maxStarts, first,
                   rpc, global_cache, warm, lastBatch, repeat, hashAtStart,
                   published, rSnap, failedParse, raw_log, parse_result,
                   batchLimit, event, cpc, likely_layer, severity, causes,
                   actions, notes, is_abnormal, health, log_file, writes,
                   writeLimit, read_call, read_result, apc, lines, before>>

\* ------------------------------------------------------ cache_worker_loop
\* Line 286: time.sleep(interval_seconds), then the next update_cache().
Sleep(w) ==
    /\ pc[w] = "sleep"
    /\ now < MaxClock
    /\ now' = now + 1
    /\ pc' = [pc EXCEPT ![w] = "fetch"]
    /\ first' = [first EXCEPT ![w] = FALSE]
    /\ outcome' = [outcome EXCEPT ![w] = "none"]
    /\ wrote' = [wrote EXCEPT ![w] = "none"]
    /\ repeat' = [repeat EXCEPT ![w] = FALSE]
    /\ hashAtStart' = [hashAtStart EXCEPT ![w] = None]
    /\ UNCHANGED <<store, global_parsed_cache, cache_timestamp,
                   last_processed_record_hash, cache_file, started,
                   maxStarts, records, parsed_data, rpc, global_cache, warm,
                   lastBatch, published, rSnap, persistedOnce, fileMem,
                   failedParse, raw_log, parse_result, batchLimit, event,
                   cpc, likely_layer, severity, causes, actions, notes,
                   is_abnormal, health, log_file, writes, writeLimit,
                   read_call, read_result, apc, lines, before>>

\* Lines 291-296: "except Exception" of the loop sleeps; the loop then
\* sleeps again (Sleep).
SleepAfterError(w) ==
    /\ pc[w] = "caught"
    /\ now < MaxClock
    /\ now' = now + 1
    /\ pc' = [pc EXCEPT ![w] = "sleep"]
    /\ UNCHANGED <<store, global_parsed_cache, cache_timestamp,
                   last_processed_record_hash, cache_file, started,
                   maxStarts, first, records, parsed_data, rpc,
                   global_cache, warm, outcome, wrote, lastBatch, repeat,
                   hashAtStart, published, rSnap, persistedOnce, fileMem,
                   failedParse, raw_log, parse_result, batchLimit, event,
                   cpc, likely_layer, severity, causes, actions, notes,
                   is_abnormal, health, log_file, writes, writeLimit,
                   read_call, read_result, apc, lines, before>>

\* ------------------------------------------- get_cached_telemetry_data
\* A call begins: global_cache = get_global_cache(); "if global_cache:"
\* fails for None, and the global cache has nothing to give.
ReadData ==
    /\ rpc = "idle"
    /\ IF Truthy(global_parsed_cache)
       THEN /\ rpc' = "age"
            /\ global_cache' = global_parsed_cache
            /\ rSnap' = published
       ELSE UNCHANGED <<rpc, global_cache, rSnap>>
    /\ UNCHANGED <<store, now, global_parsed_cache, cache_timestamp,
                   last_processed_record_hash, cache_file, started,
                   maxStarts, pc, first, records, parsed_data, warm,
                   outcome, wrote, lastBatch, repeat, hashAtStart,
                   published, persistedOnce, fileMem, failedParse, raw_log,
                   parse_result, batchLimit, event, cpc, likely_layer,
                   severity, causes, actions, notes, is_abnormal, health,
                   log_file, writes, writeLimit, read_call, read_result,
                   apc, lines, before>>

\* get_cache_age_seconds() is None, and f"{cache_age:.0f}" raises TypeError.
ReaderRaises == rpc = "age" /\ cache_timestamp = None

\* cache_age = get_cache_age_seconds(), then f"{cache_age:.0f}": the call
\* returns the cached data and its age, or raises (ReaderRaises).
ReadAge ==
    /\ rpc = "age"
    /\ rpc' = "idle"
    /\ global_cache' = None
    /\ rSnap' = <<None, None>>
    /\ UNCHANGED <<store, now, global_parsed_cache, cache_timestamp,
                   last_processed_record_hash, cache_file, started,
                   maxStarts, pc, first, records, parsed_data, warm,
                   outcome, wrote, lastBatch, repeat, hashAtStart,
                   published, persistedOnce, fileMem, failedParse, raw_log,
                   parse_result, batchLimit, event, cpc, likely_layer,
                   severity, causes, actions, notes, is_abnormal, health,
                   log_file, writes, writeLimit, read_call, read_result,
                   apc, lines, before>>

\* ------------------------------------------------------ specifications
WorkerStep(w) ==
    \/ FetchRaises(w)
    \/ Fetch(w)
    \/ HasNewData(w)
    \/ FetchAndParse(w)
    \/ SaveMkdirRaises(w)
    \/ SaveData(w)
    \/ SaveStamp(w)
    \/ SaveWrite(w)
    \/ Sleep(w)
    \/ SleepAfterError(w)

Next ==
    \/ \E r \in StoreRecords : AppendToLog(r)
    \/ \E r \in StoreRecords : InjectSignal(r)
    \/ StartBackgroundWorker
    \/ Restart
    \/ \E w \in Workers : WorkerStep(w)

\* The same with a store of up to MaxFingerStore records, so that a batch
\* has records between its first and its last.
NextFinger ==
    \/ /\ \A w \in Workers : pc[w] \in {"off", "sleep"}
       /\ \E r \in StoreRecords : AppendWithin(r, MaxFingerStore)
    \/ StartBackgroundWorker
    \/ \E w \in Workers :
         \/ Fetch(w)
         \/ HasNewData(w)
         \/ FetchAndParse(w)
         \/ SaveData(w)
         \/ SaveStamp(w)
         \/ SaveWrite(w)
         \/ Sleep(w)

\* web/app.py calls start_background_worker once per process.
Init ==
    /\ WorkerInit /\ maxStarts = 1
    /\ ParserIdle /\ ComplianceIdle /\ StoreEmpty
Spec == Init /\ [][Next]_vars
SpecFinger == Init /\ [][NextFinger]_vars

\* The same with a reader: get_cached_telemetry_data runs in a request
\* thread beside the worker. It writes nothing the worker reads.
NextReader ==
    \/ Next
    \/ ReadData
    \/ ReadAge
SpecReader == Init /\ [][NextReader]_vars

\* start_background_worker called up to MaxStarts times in one process.
InitMulti ==
    /\ WorkerInit /\ maxStarts = MaxStarts
    /\ ParserIdle /\ ComplianceIdle /\ StoreEmpty
SpecMulti == InitMulti /\ [][Next]_vars

\* ------------------------------------------------- parse_telemetry_log
\* The record blocks a batch is made of: two different records of ONU 1, a
\* record of ONU 2, a record whose onu-id element has no text, a record
\* without onu-id, and a block ET.fromstring rejects.
BlockKinds == {Block(TRUE, Some("OLT-01"), Some("1")),
               Block(TRUE, Some("OLT-02"), Some("1")),
               Block(TRUE, Some("OLT-01"), Some("2")),
               Block(TRUE, Some("OLT-01"), Some("")),
               Block(TRUE, Some("OLT-01"), None),
               Block(FALSE, None, None)}

\* The caller builds the argument raw_log, one block at a time.
AddBlock(b) ==
    /\ parse_result = None
    /\ Len(raw_log) < batchLimit
    /\ raw_log' = Append(raw_log, b)
    /\ UNCHANGED <<store, now, global_parsed_cache, cache_timestamp,
                   last_processed_record_hash, cache_file, started,
                   maxStarts, pc, first, records, parsed_data, rpc,
                   global_cache, warm, outcome, wrote, lastBatch, repeat,
                   hashAtStart, published, rSnap, persistedOnce, fileMem,
                   failedParse, parse_result, batchLimit, event, cpc,
                   likely_layer, severity, causes, actions, notes,
                   is_abnormal, health, log_file, writes, writeLimit,
                   read_call, read_result, apc, lines, before>>

\* parse_telemetry_log(raw_log) returns or raises.
RunParse ==
    /\ parse_result = None
    /\ parse_result' = ParseOutcome(raw_log)
    /\ UNCHANGED <<store, now, global_parsed_cache, cache_timestamp,
                   last_processed_record_hash, cache_file, started,
                   maxStarts, pc, first, records, parsed_data, rpc,
                   global_cache, warm, outcome, wrote, lastBatch, repeat,
                   hashAtStart, published, rSnap, persistedOnce, fileMem,
                   failedParse, raw_log, batchLimit, event, cpc,
                   likely_layer, severity, causes, actions, notes,
                   is_abnormal, health, log_file, writes, writeLimit,
                   read_call, read_result, apc, lines, before>>

\* The next call, with another argument.
NewLog ==
    /\ parse_result # None
    /\ raw_log' = <<>>
    /\ parse_result' = None
    /\ UNCHANGED <<store, now, global_parsed_cache, cache_timestamp,
                   last_processed_record_hash, cache_file, started,
                   maxStarts, pc, first, records, parsed_data, rpc,
                   global_cache, warm, outcome, wrote, lastBatch, repeat,
                   hashAtStart, published, rSnap, persistedOnce, fileMem,
                   failedParse, batchLimit, event, cpc, likely_layer,
                   severity, causes, actions, notes, is_abnormal, health,
                   log_file, writes, writeLimit, read_call, read_result,
                   apc, lines, before>>

NextParse ==
    \/ \E b \in BlockKinds : AddBlock(b)
    \/ RunParse
    \/ NewLog

SpecParse == Init /\ [][NextParse]_vars

\* eventTime as the generator writes it, and one with a child element.
EventTimeLeaf == Some([text |-> "2025-01-01T00:00:00Z", kids |-> 0])
EventTimeNested == Some([text |-> "", kids |-> 1])
\* Numeric elements: rx-power with the given text, the others absent.
RxPower(t) == [NoNumbers EXCEPT !["rx_power_dBm"] = Some(t)]

\* More kinds of blocks, in shorter batches: records as the generator
\* writes them, a record whose rx-power is not a number or is empty, a
\* record with a nested eventTime, a record cut before its closing tag,
\* and the blocks without a usable onu-id or with broken markup.
BatchKinds ==
    {Notification(TRUE, TRUE, EventTimeLeaf, Some("OLT-01"), Some("1"),
                  RxPower("-22.0")),
     Notification(TRUE, TRUE, None, Some("OLT-01"), Some("2"),
                  RxPower("-29.5")),
     Notification(TRUE, TRUE, EventTimeLeaf, Some("OLT-01"), Some("1"),
                  RxPower("abc")),
     Notification(TRUE, TRUE, EventTimeLeaf, Some("OLT-01"), Some("2"),
                  RxPower("")),
     Notification(TRUE, TRUE, EventTimeNested, Some("OLT-01"), Some("1"),
                  NoNumbers),
     Notification(FALSE, FALSE, EventTimeLeaf, Some("OLT-01"), None,
                  NoNumbers),
     Block(TRUE, Some("OLT-01"), Some("")),
     Block(TRUE, Some("OLT-01"), None),
     Block(FALSE, None, None)}

NextBatch ==
    \/ \E b \in BatchKinds : AddBlock(b)
    \/ RunParse
    \/ NewLog

InitBatch ==
    /\ WorkerInit
    /\ maxStarts = 1
    /\ raw_log = <<>>
    /\ parse_result = None
    /\ batchLimit = MaxBatch
    /\ ComplianceIdle
    /\ StoreEmpty
SpecBatch == InitBatch /\ [][NextBatch]_vars

\* ------------------------------------------- check_ieee_8023_compliance
\* Values of an event's fields as the tool receives them (JSON): a number,
\* a text or a boolean. Numbers are integers in the unit of their field:
\* rx power, SNR and temperature in tenths, BER in units of 1e-10.
\* A value has its number in n (1 for True, 0 for False) and its text in s.
Num(n) == Some([type |-> "float", n |-> n, s |-> ""])
Str(s) == Some([type |-> "str", n |-> 0, s |-> s])
Bool(b) == Some([type |-> "bool", n |-> IF b THEN 1 ELSE 0, s |-> ""])

\* The thresholds of the rules, in those units.
RX_LOW == -265
RX_CRITICAL == -280
BER_EXTREME == 10000000
BER_HIGH == 1000000
BER_ELEVATED == 100000
SNR_CRITICAL == 120
SNR_MARGINAL == 150
TEMP_HIGH == 750

\* The events classified: each field absent or null (None), in range, past
\* each threshold, or of the wrong type.
RxValues == {None, Num(-220), Num(-265), Num(-270), Num(-280), Num(-295),
             Str("abc")}
BerValues == {None, Num(21), Num(520000), Num(2000000), Num(20000000),
              Str("abc")}
SnrValues == {None, Num(245), Num(123), Num(110), Str("abc")}
TempValues == {None, Num(520), Num(782), Str("abc")}
QotDegradeValues == {None, Bool(TRUE), Bool(FALSE)}
DspValues == {None, Str("normal"), Str("slow"), Str("SLOW")}
Events ==
    [rx : RxValues, ber_pre : BerValues, snr : SnrValues, temp : TempValues,
     qot_degrade : QotDegradeValues, dsp_state : DspValues]

\* "rx < -26.5" and the like raise TypeError for a text.
CompareRaises(x) == x # None /\ Val(x).type = "str"

\* dsp_state.lower() of the texts above.
Lower(s) == IF s = "SLOW" THEN "slow" ELSE s
\* dsp_state_norm: the lowered text, None when dsp_state is not a text.
DspNorm(ev) ==
    IF ev.dsp_state # None /\ Val(ev.dsp_state).type = "str"
    THEN Some(Lower(Val(ev.dsp_state).s)) ELSE None
dsp_state_norm == DspNorm(event)

\* severity = "warning" without the test, a plausible slip.
PromoteAlways(sev) == "warning"
\* if severity == "info": severity = "warning"
Promote(sev) == IF sev = "info" THEN "warning" ELSE sev

\* likely_layer left as it is, a plausible slip.
LayerKept(layer) == layer
\* if likely_layer == "Unknown": likely_layer = "PHY"
LayerIfUnknown(layer) == IF layer = "Unknown" THEN "PHY" ELSE layer

\* "temp > 50", a plausible slip.
TempHighLoose(t) == t > 500
\* temp > 75
TempHigh(t) == t > TEMP_HIGH

\* "rx <= -26.5", a plausible slip.
RxLowInclusive(rx) == rx <= RX_LOW
\* rx < -26.5
RxLow(rx) == rx < RX_LOW
\* rx < -28
RxBeyond(rx) == rx < RX_CRITICAL

\* A comparison raised TypeError: the call ends without a result.
ComplianceRaises ==
    /\ cpc' = "raised"
    /\ UNCHANGED <<likely_layer, severity, causes, actions, notes>>

\* Rule 1, lines 48-60: qot_degrade is True.
Rule1 ==
    /\ cpc = "rule1"
    /\ cpc' = "rule2"
    /\ IF event.qot_degrade = Bool(TRUE)
       THEN /\ likely_layer' = "PHY"
            /\ severity' = "critical"
            /\ causes' = Append(causes, "QoT degradation reported by ONU.")
            /\ actions' = actions \o
                 <<"Verify fiber continuity and connectors on the PON link.",
                   "Measure optical power with OPM or perform OTDR test.",
                   "Inspect splitter ports/splices for excessive loss.">>
            /\ notes' = Append(notes, "QoT degrade indicates optical signal margins falling outside normal operating envelope for EPON PHY optics.")
       ELSE UNCHANGED <<likely_layer, severity, causes, actions, notes>>
    /\ UNCHANGED <<store, now, global_parsed_cache, cache_timestamp,
                   last_processed_record_hash, cache_file, started,
                   maxStarts, pc, first, records, parsed_data, rpc,
                   global_cache, warm, outcome, wrote, lastBatch, repeat,
                   hashAtStart, published, rSnap, persistedOnce, fileMem,
                   failedParse, raw_log, parse_result, batchLimit, event,
                   is_abnormal, health, log_file, writes, writeLimit,
                   read_call, read_result, apc, lines, before>>

\* Rule 2, lines 65-82: the rx power window.
Rule2 ==
    /\ cpc = "rule2"
    /\ IF event.rx = None
       THEN /\ cpc' = "rule3"
            /\ UNCHANGED <<likely_layer, severity, causes, actions, notes>>
       ELSE IF CompareRaises(event.rx) THEN ComplianceRaises
       ELSE LET rx == Val(event.rx).n
                low == RxLow(rx)
                beyond == RxBeyond(rx)
            IN  /\ cpc' = "rule3"
                /\ likely_layer' = IF low \/ beyond
                                   THEN LayerIfUnknown(likely_layer)
                                   ELSE likely_layer
                /\ severity' = IF beyond THEN "critical"
                               ELSE IF low THEN Promote(severity)
                               ELSE severity
                /\ causes' = causes
                     \o (IF low
                         THEN <<"Low received optical power ({rx:.2f} dBm).">>
                         ELSE <<>>)
                     \o (IF beyond
                         THEN <<"Received optical power beyond sensitivity threshold.">>
                         ELSE <<>>)
                /\ actions' = actions
                     \o (IF low
                         THEN <<"Check passive plant for excessive insertion loss.">>
                         ELSE <<>>)
                     \o (IF beyond
                         THEN <<"Urgently inspect fiber drop and connectors.">>
                         ELSE <<>>)
                /\ notes' = IF low
                            THEN Append(notes, "Receiver input is near sensitivity limit for common EPON ONU optics.")
                            ELSE notes
    /\ UNCHANGED <<store, now, global_parsed_cache, cache_timestamp,
                   last_processed_record_hash, cache_file, started,
                   maxStarts, pc, first, records, parsed_data, rpc,
                   global_cache, warm, outcome, wrote, lastBatch, repeat,
                   hashAtStart, published, rSnap, persistedOnce, fileMem,
                   failedParse, raw_log, parse_result, batchLimit, event,
                   is_abnormal, health, log_file, writes, writeLimit,
                   read_call, read_result, apc, lines, before>>

\* Rule 3, lines 87-110: the pre-FEC BER.
Rule3 ==
    /\ cpc = "rule3"
    /\ IF event.ber_pre = None
       THEN /\ cpc' = "rule4"
            /\ UNCHANGED <<likely_layer, severity, causes, actions, notes>>
       ELSE IF CompareRaises(event.ber_pre) THEN ComplianceRaises
       ELSE LET ber_pre == Val(event.ber_pre).n
            IN  /\ cpc' = "rule4"
                /\ UNCHANGED notes
                /\ CASE ber_pre > BER_EXTREME ->
                          /\ likely_layer' = "PHY"
                          /\ severity' = "critical"
                          /\ causes' = Append(causes, "Pre-FEC BER {ber_pre:.2e} extremely high.")
                          /\ actions' = actions \o
                               <<"Perform optical path inspection immediately.",
                                 "Verify laser launch conditions and ONU optics health.">>
                     [] ber_pre <= BER_EXTREME /\ ber_pre > BER_HIGH ->
                          /\ likely_layer' = LayerIfUnknown(likely_layer)
                          /\ severity' = Promote(severity)
                          /\ causes' = Append(causes, "Pre-FEC BER {ber_pre:.2e} above nominal.")
                          /\ actions' = Append(actions, "Check clock recovery / dispersion on long-reach PON.")
                     [] ber_pre <= BER_HIGH /\ ber_pre > BER_ELEVATED ->
                          /\ likely_layer' = LayerIfUnknown(likely_layer)
                          /\ severity' = Promote(severity)
                          /\ causes' = Append(causes, "Pre-FEC BER slightly elevated.")
                          /\ actions' = Append(actions, "Monitor BER trend over time.")
                     [] OTHER ->
                          UNCHANGED <<likely_layer, severity, causes, actions>>
    /\ UNCHANGED <<store, now, global_parsed_cache, cache_timestamp,
                   last_processed_record_hash, cache_file, started,
                   maxStarts, pc, first, records, parsed_data, rpc,
                   global_cache, warm, outcome, wrote, lastBatch, repeat,
                   hashAtStart, published, rSnap, persistedOnce, fileMem,
                   failedParse, raw_log, parse_result, batchLimit, event,
                   is_abnormal, health, log_file, writes, writeLimit,
                   read_call, read_result, apc, lines, before>>

\* Rule 4, lines 115-130: the SNR.
Rule4 ==
    /\ cpc = "rule4"
    /\ IF event.snr = None
       THEN /\ cpc' = "rule5"
            /\ UNCHANGED <<likely_layer, severity, causes, actions, notes>>
       ELSE IF CompareRaises(event.snr) THEN ComplianceRaises
       ELSE LET snr == Val(event.snr).n
            IN  /\ cpc' = "rule5"
                /\ UNCHANGED notes
                /\ CASE snr < SNR_CRITICAL ->
                          /\ likely_layer' = "PHY"
                          /\ severity' = "critical"
                          /\ causes' = Append(causes, "SNR critically low ({snr:.1f} dB).")
                          /\ actions' = Append(actions, "Investigate reflections, macro-bends, or noisy transmitters.")
                     [] snr >= SNR_CRITICAL /\ snr < SNR_MARGINAL ->
                          /\ severity' = Promote(severity)
                          /\ likely_layer' = "PHY"
                          /\ causes' = Append(causes, "SNR marginal ({snr:.1f} dB).")
                          /\ actions' = Append(actions, "Inspect connectors for contamination or micro-bends.")
                     [] OTHER ->
                          UNCHANGED <<likely_layer, severity, causes, actions>>
    /\ UNCHANGED <<store, now, global_parsed_cache, cache_timestamp,
                   last_processed_record_hash, cache_file, started,
                   maxStarts, pc, first, records, parsed_data, rpc,
                   global_cache, warm, outcome, wrote, lastBatch, repeat,
                   hashAtStart, published, rSnap, persistedOnce, fileMem,
                   failedParse, raw_log, parse_result, batchLimit, event,
                   is_abnormal, health, log_file, writes, writeLimit,
                   read_call, read_result, apc, lines, before>>

\* Rule 5, lines 135-140: the temperature.
Rule5 ==
    /\ cpc = "rule5"
    /\ IF event.temp = None
       THEN /\ cpc' = "rule6"
            /\ UNCHANGED <<likely_layer, severity, causes, actions, notes>>
       ELSE IF CompareRaises(event.temp) THEN ComplianceRaises
       ELSE /\ cpc' = "rule6"
            /\ UNCHANGED notes
            /\ IF TempHigh(Val(event.temp).n)
               THEN /\ likely_layer' = "PHY"
                    /\ severity' = Promote(severity)
                    /\ causes' = Append(causes, "High ONU temperature ({temp}C).")
                    /\ actions' = Append(actions, "Check ONU ambient conditions and ventilation.")
               ELSE UNCHANGED <<likely_layer, severity, causes, actions>>
    /\ UNCHANGED <<store, now, global_parsed_cache, cache_timestamp,
                   last_processed_record_hash, cache_file, started,
                   maxStarts, pc, first, records, parsed_data, rpc,
                   global_cache, warm, outcome, wrote, lastBatch, repeat,
                   hashAtStart, published, rSnap, persistedOnce, fileMem,
                   failedParse, raw_log, parse_result, batchLimit, event,
                   is_abnormal, health, log_file, writes, writeLimit,
                   read_call, read_result, apc, lines, before>>

\* Rule 6, lines 145-153: the DSP adaptation state.
Rule6 ==
    /\ cpc = "rule6"
    /\ cpc' = "finish"
    /\ IF dsp_state_norm # None
          /\ Val(dsp_state_norm) \in {"slow", "degraded", "tracking"}
       THEN /\ likely_layer' = "PHY"
            /\ severity' = Promote(severity)
            /\ causes' = Append(causes, "DSP adaptation struggling (slow/degraded).")
            /\ actions' = Append(actions, "Check for unstable optical power or high dispersion.")
            /\ notes' = Append(notes, "DSP struggling often correlates with low SNR or fluctuating power.")
       ELSE UNCHANGED <<likely_layer, severity, causes, actions, notes>>
    /\ UNCHANGED <<store, now, global_parsed_cache, cache_timestamp,
                   last_processed_record_hash, cache_file, started,
                   maxStarts, pc, first, records, parsed_data, rpc,
                   global_cache, warm, outcome, wrote, lastBatch, repeat,
                   hashAtStart, published, rSnap, persistedOnce, fileMem,
                   failedParse, raw_log, parse_result, batchLimit, event,
                   is_abnormal, health, log_file, writes, writeLimit,
                   read_call, read_result, apc, lines, before>>

\* ------------------------------------ the severity as a function of the event
\* The field is a number (the comparisons of its rule do not raise).
IsNumber(x) == x # None /\ Val(x).type = "float"
\* The condition of each rule, 1 to 6, for an event.
Condition(ev, rule) ==
    CASE rule = 1 -> ev.qot_degrade = Bool(TRUE)
      [] rule = 2 -> IsNumber(ev.rx) /\ RxLow(Val(ev.rx).n)
      [] rule = 3 -> IsNumber(ev.ber_pre) /\ Val(ev.ber_pre).n > BER_ELEVATED
      [] rule = 4 -> IsNumber(ev.snr) /\ Val(ev.snr).n < SNR_MARGINAL
      [] rule = 5 -> IsNumber(ev.temp) /\ TempHigh(Val(ev.temp).n)
      [] rule = 6 -> /\ DspNorm(ev) # None
                     /\ Val(DspNorm(ev)) \in {"slow", "degraded", "tracking"}
Rules == 1..6
Conditions(ev) == {rule \in Rules : Condition(ev, rule)}

\* The severity after each rule, from the severity before it: "critical"
\* where the rule assigns it, Promote where it only promotes.
SeverityAfter(ev, rule, sev) ==
    IF ~Condition(ev, rule) THEN sev
    ELSE CASE rule = 1 -> "critical"
           [] rule = 2 -> IF RxBeyond(Val(ev.rx).n) THEN "critical"
                          ELSE Promote(sev)
           [] rule = 3 -> IF Val(ev.ber_pre).n > BER_EXTREME THEN "critical"
                          ELSE Promote(sev)
           [] rule = 4 -> IF Val(ev.snr).n < SNR_CRITICAL THEN "critical"
                          ELSE Promote(sev)
           [] rule = 5 -> Promote(sev)
           [] rule = 6 -> Promote(sev)
\* The severity check_ieee_8023_compliance returns for an event whose
\* numeric fields are numbers or None.
SeverityOf(ev) ==
    SeverityAfter(ev, 6,
      SeverityAfter(ev, 5,
        SeverityAfter(ev, 4,
          SeverityAfter(ev, 3,
            SeverityAfter(ev, 2,
              SeverityAfter(ev, 1, "info"))))))

\* is_abnormal left False, a plausible slip.
NeverAbnormal(cs) == FALSE
\* Lines 158-168: is_abnormal is whether a rule added a cause.
IsAbnormal(cs) == cs # <<>>

\* major_issue and minor_issue exchanged, a plausible slip.
HealthOfSwapped(abnormal, sev) ==
    IF ~abnormal THEN "normal"
    ELSE IF sev = "critical" THEN "minor_issue" ELSE "major_issue"
\* Lines 174-179: health from is_abnormal and severity.
HealthOf(abnormal, sev) ==
    IF ~abnormal THEN "normal"
    ELSE IF sev = "critical" THEN "major_issue" ELSE "minor_issue"

\* Step 7 and the return, lines 158-192.
Finish ==
    /\ cpc = "finish"
    /\ cpc' = "done"
    /\ IF causes = <<>>
       THEN /\ causes' = <<"No abnormal conditions detected.">>
            /\ actions' = Append(actions, "Continue monitoring.")
            /\ notes' = Append(notes, "Event appears to be within normal IEEE 802.3 EPON operating range.")
       ELSE /\ UNCHANGED <<causes, notes>>
            /\ actions' = IF severity \in {"info", "warning"}
                          THEN Append(actions, "Continue monitoring link quality trends.")
                          ELSE actions
    /\ is_abnormal' = IsAbnormal(causes)
    /\ health' = HealthOf(IsAbnormal(causes), severity)
    /\ UNCHANGED <<store, now, global_parsed_cache, cache_timestamp,
                   last_processed_record_hash, cache_file, started,
                   maxStarts, pc, first, records, parsed_data, rpc,
                   global_cache, warm, outcome, wrote, lastBatch, repeat,
                   hashAtStart, published, rSnap, persistedOnce, fileMem,
                   failedParse, raw_log, parse_result, batchLimit, event,
                   likely_layer, severity, log_file, writes, writeLimit,
                   read_call, read_result, apc, lines, before>>

NextComply ==
    \/ Rule1
    \/ Rule2
    \/ Rule3
    \/ Rule4
    \/ Rule5
    \/ Rule6
    \/ Finish

\* check_ieee_8023_compliance(event) is called with any of the events.
InitComply ==
    /\ WorkerInit
    /\ maxStarts = 1
    /\ ParserIdle
    /\ event \in Events
    /\ cpc = "rule1"
    /\ ComplianceLocals
    /\ StoreEmpty
SpecComply == InitComply /\ [][NextComply]_vars

\* ------------------------------------------ the record store, by lines
\* The lines one write adds to the log file: the 16 lines of the
\* notification and the separator line.
RECORD_LINES == 17
\* append_to_log: MAX_LINES = 500
MAX_LINES == 500

\* Line k of the n-th record written to the file.
RecordLine(n, k) == <<n, k>>
\* The lines of the n-th record written.
RecordText(n) == [k \in 1..RECORD_LINES |-> RecordLine(n, k)]

\* lines[-MAX_LINES:]
LastLines(ls, max) ==
    IF Len(ls) > max
    THEN SubSeq(ls, Len(ls) - max + 1, Len(ls))
    ELSE ls

\* append_to_log(text): the file is read, the record's lines and the
\* separator are added, the lines are cut to the last MAX_LINES and the
\* file is written back.
append_to_log ==
    /\ ~read_call.called   \* no call of the reader is waiting to return
    /\ writes < writeLimit
    /\ writes' = writes + 1
    /\ log_file' = LastLines(log_file \o RecordText(writes + 1), MAX_LINES)
    /\ UNCHANGED <<store, now, global_parsed_cache, cache_timestamp,
                   last_processed_record_hash, cache_file, started,
                   maxStarts, pc, first, records, parsed_data, rpc,
                   global_cache, warm, outcome, wrote, lastBatch, repeat,
                   hashAtStart, published, rSnap, persistedOnce, fileMem,
                   failedParse, raw_log, parse_result, batchLimit, event,
                   cpc, likely_layer, severity, causes, actions, notes,
                   is_abnormal, health, writeLimit, read_call, read_result,
                   apc, lines, before>>

\* inject_degraded_signal / inject_normal_signal: the record and an empty
\* line are appended to the file (open(LOG_FILE, "a")).
inject_signal ==
    /\ ~read_call.called   \* no call of the reader is waiting to return
    /\ writes < writeLimit
    /\ writes' = writes + 1
    /\ log_file' = log_file \o RecordText(writes + 1)
    /\ UNCHANGED <<store, now, global_parsed_cache, cache_timestamp,
                   last_processed_record_hash, cache_file, started,
                   maxStarts, pc, first, records, parsed_data, rpc,
                   global_cache, warm, outcome, wrote, lastBatch, repeat,
                   hashAtStart, published, rSnap, persistedOnce, fileMem,
                   failedParse, raw_log, parse_result, batchLimit, event,
                   cpc, likely_layer, severity, causes, actions, notes,
                   is_abnormal, health, writeLimit, read_call, read_result,
                   apc, lines, before>>

\* ----------------------------------------- reading the record store
\* NUM_ONUS = 8: main() writes one record per ONU, ONU 1 to 8 in turn. The
\* n-th record written carries the ONU id OnuOf(n).
NUM_ONUS == 8
OnuOf(n) == ((n - 1) % NUM_ONUS) + 1

\* line.strip().startswith("<notification"): the first line of a record.
IsOpen(line) == line[2] = 1
\* line.strip().startswith("</notification>"): the line before the
\* separator.
IsClose(line) == line[2] = RECORD_LINES - 1

\* The loop of lines 29-37 adds one element to records at every closing
\* line: the lines from the last opening line after the closing line
\* before it, and the closing line alone when there is no such opening
\* line (current_record is then the empty list). RecordsFrom gives the
\* elements added from line from on, when current_record is empty there.
RECURSIVE RecordsFrom(_, _)
RecordsFrom(content, from) ==
    LET closes == {j \in from..Len(content) : IsClose(content[j])}
    IN  IF closes = {} THEN <<>>
        ELSE LET j == CHOOSE c \in closes : \A d \in closes : c <= d
                 opens == {i \in from..(j - 1) : IsOpen(content[i])}
                 rec == IF opens = {} THEN <<content[j]>>
                        ELSE SubSeq(content,
                                    CHOOSE i \in opens :
                                        \A o \in opens : o <= i,
                                    j)
             IN  <<rec>> \o RecordsFrom(content, j + 1)

\* records after the loop: one element per closing line, in file order.
SplitRecords(content) == RecordsFrom(content, 1)

\* ET.fromstring(record) succeeds: the record is a whole notification.
WellFormed(record) ==
    /\ Len(record) = RECORD_LINES - 1
    /\ \A k \in 1..Len(record) : record[k] = RecordLine(record[1][1], k)

\* str(onu_elem.text) == str(onu_id) for the record.
OnuMatches(record, onu_id) ==
    WellFormed(record) /\ OnuOf(record[1][1]) = onu_id

\* seq[-count:]; -0 is 0, so seq[-0:] is the whole list.
PyLast(seq, count) ==
    IF count = 0 \/ Len(seq) <= count
    THEN seq
    ELSE SubSeq(seq, Len(seq) - count + 1, Len(seq))

\* What get_latest_netconf_records(count, onu_id) returns when the file
\* holds content.
LatestRecords(content, count, onu_id) ==
    LET recs == SplitRecords(content)
    IN  IF onu_id # None
        THEN PyLast(SelectSeq(recs, LAMBDA r : OnuMatches(r, Val(onu_id))),
                    count)
        ELSE PyLast(recs, count)

\* The arguments the callers pass: count, and onu_id or None.
Counts == {0, 1, 2, FETCH_COUNT}
OnuIds == {None, Some(1), Some(2)}

\* get_latest_netconf_records(count, onu_id): f.read() takes the file's
\* content in one step.
read_latest ==
    \E count \in Counts, onu_id \in OnuIds :
        /\ ~read_call.called
        /\ read_call' = [count |-> count, onu_id |-> onu_id, called |-> TRUE]
        /\ read_result' = LatestRecords(log_file, count, onu_id)
        /\ UNCHANGED <<store, now, global_parsed_cache, cache_timestamp,
                       last_processed_record_hash, cache_file, started,
                       maxStarts, pc, first, records, parsed_data, rpc,
                       global_cache, warm, outcome, wrote, lastBatch,
                       repeat, hashAtStart, published, rSnap, persistedOnce,
                       fileMem, failedParse, raw_log, parse_result,
                       batchLimit, event, cpc, likely_layer, severity,
                       causes, actions, notes, is_abnormal, health,
                       log_file, writes, writeLimit, apc, lines, before>>

\* get_latest_netconf_records returns: its caller has the list.
read_return ==
    /\ read_call.called
    /\ read_call' = NoCall
    /\ read_result' = <<>>
    /\ UNCHANGED <<store, now, global_parsed_cache, cache_timestamp,
                   last_processed_record_hash, cache_file, started,
                   maxStarts, pc, first, records, parsed_data, rpc,
                   global_cache, warm, outcome, wrote, lastBatch, repeat,
                   hashAtStart, published, rSnap, persistedOnce, fileMem,
                   failedParse, raw_log, parse_result, batchLimit, event,
                   cpc, likely_layer, severity, causes, actions, notes,
                   is_abnormal, health, log_file, writes, writeLimit, apc,
                   lines, before>>

NextStore ==
    \/ append_to_log
    \/ inject_signal
    \/ read_latest
    \/ read_return

SpecStore == Init /\ [][NextStore]_vars

\* ------------------------------------ append_to_log, statement by statement
\* Lines 90-105: the file is read into lines, the record and the separator
\* are added and lines is cut to its last MAX_LINES.
append_read ==
    /\ ~read_call.called   \* no call of the reader is waiting to return
    /\ apc = "idle"
    /\ writes < writeLimit
    /\ writes' = writes + 1
    /\ lines' = LastLines(log_file \o RecordText(writes + 1), MAX_LINES)
    /\ apc' = "read"
    /\ UNCHANGED <<store, now, global_parsed_cache, cache_timestamp,
                   last_processed_record_hash, cache_file, started,
                   maxStarts, pc, first, records, parsed_data, rpc,
                   global_cache, warm, outcome, wrote, lastBatch, repeat,
                   hashAtStart, published, rSnap, persistedOnce, fileMem,
                   failedParse, raw_log, parse_result, batchLimit, event,
                   cpc, likely_layer, severity, causes, actions, notes,
                   is_abnormal, health, log_file, writeLimit, read_call,
                   read_result, before>>

\* Line 108: open(LOG_FILE, "w") empties the file.
append_open ==
    /\ ~read_call.called
    /\ apc = "read"
    /\ before' = log_file
    /\ log_file' = <<>>
    /\ apc' = "open"
    /\ UNCHANGED <<store, now, global_parsed_cache, cache_timestamp,
                   last_processed_record_hash, cache_file, started,
                   maxStarts, pc, first, records, parsed_data, rpc,
                   global_cache, warm, outcome, wrote, lastBatch, repeat,
                   hashAtStart, published, rSnap, persistedOnce, fileMem,
                   failedParse, raw_log, parse_result, batchLimit, event,
                   cpc, likely_layer, severity, causes, actions, notes,
                   is_abnormal, health, writes, writeLimit, read_call,
                   read_result, lines>>

\* Line 109 and the end of the with block: lines is written from the start
\* of the file, over whatever was appended to it since it was opened.
append_write ==
    /\ ~read_call.called
    /\ apc = "open"
    /\ log_file' = lines \o SubSeq(log_file, Len(lines) + 1, Len(log_file))
    /\ lines' = <<>>
    /\ apc' = "idle"
    /\ UNCHANGED <<store, now, global_parsed_cache, cache_timestamp,
                   last_processed_record_hash, cache_file, started,
                   maxStarts, pc, first, records, parsed_data, rpc,
                   global_cache, warm, outcome, wrote, lastBatch, repeat,
                   hashAtStart, published, rSnap, persistedOnce, fileMem,
                   failedParse, raw_log, parse_result, batchLimit, event,
                   cpc, likely_layer, severity, causes, actions, notes,
                   is_abnormal, health, writes, writeLimit, read_call,
                   read_result, before>>

NextRace ==
    \/ append_read
    \/ append_open
    \/ append_write
    \/ inject_signal
    \/ read_latest
    \/ read_return

InitRace ==
    /\ WorkerInit /\ maxStarts = 1
    /\ ParserIdle /\ ComplianceIdle
    /\ StoreIdle /\ writeLimit = MaxRaceWrites

SpecRace == InitRace /\ [][NextRace]_vars

\* ============================================================ properties
\* update_cache is executing in worker w (between its call and its return).
InCycle == {"fetch", "fingerprint", "parse", "save", "stamp", "write"}

\* C1: a reader that reads the data and then the age always gets a pair
\* that one completed publication (or the startup load) produced: the pair
\* published when it read the data, or the pair published when it reads
\* the age. The code publishes the data (line 107) one statement before
\* captured_at (line 108), so the statement does not hold.
C1_ReaderSeesOneSnapshot ==
    [][(rpc = "age" /\ rpc' = "idle" /\ started' = started)
         => <<global_cache, cache_timestamp>> \in {rSnap, published}]_vars

\* C2: a cycle whose batch has the stored fingerprint, and so every cycle
\* that fingerprints the batch the cycle before it fingerprinted, ends
\* Unchanged at has_new_data: it goes to sleep without parsing or writing
\* and leaves data, captured_at, fingerprint and cache file alone; any
\* other batch goes on to parsing. The stored fingerprint may come from
\* the cache file.
C2_SameFingerprintEndsUnchanged ==
    [][\A w \in Workers :
         (pc[w] = "fingerprint" /\ pc'[w] # "fingerprint"
          /\ started' = started)
         => LET h == compute_data_hash(records[w])
                same == /\ last_processed_record_hash # None
                        /\ h = Val(last_processed_record_hash)
            IN  /\ lastBatch = Some(records[w]) => same
                /\ same => /\ outcome'[w] = "Unchanged"
                           /\ pc'[w] = "sleep"
                           /\ UNCHANGED <<global_parsed_cache,
                                          cache_timestamp, cache_file,
                                          last_processed_record_hash>>
                /\ ~same => pc'[w] = "parse"]_vars

\* C2's case: a process that restored the snapshot from the cache file is
\* asleep after an Unchanged cycle over the batch of the cycle before.
C2_Witness ==
    \E w \in Workers :
        /\ warm
        /\ pc[w] = "sleep"
        /\ outcome[w] = "Unchanged"
        /\ repeat[w]

\* C3: no step of a cycle before save_cache_to_file, and so no step of a
\* cycle that fails, changes data or captured_at; and once a cycle of this
\* process has ended Persisted, the data is never None or empty again.
C3_FailedCycleKeepsSnapshot ==
    /\ [](persistedOnce => Truthy(global_parsed_cache))
    /\ [][\A w \in Workers :
            (started' = started /\ pc'[w] # pc[w]
             /\ (pc[w] \in {"fetch", "fingerprint", "parse"}
                 \/ outcome'[w] = "Failed"))
            => UNCHANGED <<global_parsed_cache, cache_timestamp>>]_vars

\* C3's case: a cycle failed after an earlier one had persisted data.
C3_Witness ==
    \E w \in Workers :
        /\ persistedOnce
        /\ outcome[w] = "Failed"
        /\ Truthy(global_parsed_cache)

\* C4: after a failed cycle the stored fingerprint has the value it had
\* when the cycle began. has_new_data stores the new fingerprint before
\* the parse, so the statement does not hold.
C4_FailedCycleKeepsFingerprint ==
    \A w \in Workers :
        outcome[w] = "Failed"
        => last_processed_record_hash = hashAtStart[w]

\* C5: the worker thread never ends: whatever a cycle does, the loop goes
\* on. The initial update_cache() of cache_worker_loop is outside the
\* loop's try, so the statement does not hold.
C5_LoopNeverStops == \A w \in Workers : pc[w] # "dead"

\* C6: at most one update_cache is in progress. start_background_worker
\* starts a thread on every call, so the statement does not hold.
C6_CyclesAreSerial == Cardinality({w \in Workers : pc[w] \in InCycle}) <= 1

\* C7: when the file write of a cycle fails, the cycle returns normally
\* (it ends Persisted and the loop sleeps), and memory holds the cycle's
\* parse result with this cycle's time, whatever the file holds.
C7_WriteFailureKeepsMemory ==
    [][\A w \in Workers :
         (pc[w] = "write" /\ started' = started /\ wrote'[w] = "failed")
         => /\ pc'[w] = "sleep"
            /\ outcome'[w] = "Persisted"
            /\ Truthy(parsed_data[w])
            /\ global_parsed_cache' = parsed_data[w]
            /\ cache_timestamp' = Some(now)
            /\ cache_file' \in {cache_file, CorruptFile}]_vars

\* C7's case: a cycle whose write failed has ended, and the file does not
\* hold the data in memory.
C7_Witness ==
    \E w \in Workers :
        /\ wrote[w] = "failed"
        /\ pc[w] = "sleep"
        /\ (cache_file.kind = "json"
            => cache_file.obj.parsed_data # global_parsed_cache)

\* C8: in a process that loaded a cache file, from the return of
\* start_background_worker until the first cycle publishes, data and
\* captured_at are those in memory when the file was written, and so is
\* the fingerprint until the first cycle stores another.
C8_ReloadRestoresSnapshot ==
    (warm /\ started = 1 /\ first[1]
     /\ pc[1] \in {"fetch", "fingerprint", "parse", "save"})
    => /\ fileMem # None
       /\ global_parsed_cache = Val(fileMem)[1]
       /\ cache_timestamp = Val(fileMem)[2]
       /\ Truthy(global_parsed_cache)
       /\ (pc[1] \in {"fetch", "fingerprint"}
           => last_processed_record_hash = Val(fileMem)[3])

\* C8's case: the worker has just been started on a restored snapshot.
C8_Witness ==
    /\ warm
    /\ started = 1
    /\ first[1]
    /\ pc[1] = "fetch"
    /\ Truthy(global_parsed_cache)

\* C9: whenever there is data there is a captured_at, and the reader never
\* formats an age of None. Between lines 107 and 108 of the first save of
\* a process that loaded nothing there is data without captured_at, so the
\* statement does not hold.
C9_DataHasAge ==
    /\ Truthy(global_parsed_cache) => cache_timestamp # None
    /\ ~ReaderRaises

\* The event of the block at position i of raw_log.
EventAt(i) == Val(parse_single_record(raw_log[i]))
\* The positions of the surviving blocks of raw_log, and those of ONU oid.
SurvivingPositions ==
    {i \in 1..Len(raw_log) : Alone(raw_log, i) /\ Survives(raw_log[i])}
PositionsOf(oid) == {i \in SurvivingPositions : EventOid(EventAt(i)) = oid}

Returned == parse_result # None /\ parse_result # Raised

\* raw_log without the blocks whose markup is malformed.
WithoutMalformed == SelectSeq(raw_log, LAMBDA b : b.wf)

\* C11: a batch with malformed blocks gives the mapping the batch without
\* them gives, and the call does not raise. A malformed block that lacks
\* its closing tag is joined with the record after it and both are lost
\* (and a record with a non-numeric field makes the call raise, C12), so
\* the statement does not hold.
C11_MalformedBlocksDiscarded ==
    (parse_result # None /\ \E i \in 1..Len(raw_log) : ~raw_log[i].wf)
    => /\ parse_result # Raised
       /\ parse_result = ParseOutcome(WithoutMalformed)

\* A record with every unparseable numeric text taken out.
Nulled(b) ==
    [b EXCEPT !.qot = [f \in NumericFields |->
                         IF ToFloatRaises(FieldText(b.qot[f])) THEN None
                         ELSE b.qot[f]]]

\* C12: a numeric field that is not a number becomes null: the call returns
\* what it returns for the batch with those fields empty. float() raises
\* ValueError, which only "except ET.ParseError" guards, so the statement
\* does not hold.
C12_BadNumberBecomesNull ==
    parse_result # None
    => parse_result
         = Some(parse_telemetry_log([i \in 1..Len(raw_log) |->
                                       Nulled(raw_log[i])]))

\* C13: every key of the returned mapping is the non-empty onu-id text of a
\* record of the input, and holds only events of that ONU. An empty onu-id
\* element has text None and str(None) is the key "None", so the statement
\* does not hold.
C13_KeysAreOnuIds ==
    Returned
    => \A key \in DOMAIN Val(parse_result) :
         /\ key # ""
         /\ \E i \in 1..Len(raw_log) : raw_log[i].onu = Some(key)
         /\ \A k \in 1..Len(Val(parse_result)[key]) :
              Val(parse_result)[key][k].onu_id = Some(key)

\* C14: the event of a well-formed record has the text of the record's
\* eventTime as its timestamp, and None when the record has no eventTime.
\* "if event_time_elem:" is false for an element without children, so the
\* statement does not hold.
C14_TimestampIsEventTime ==
    Returned
    => \A i \in 1..Len(raw_log) :
         raw_log[i].wf
         => Val(parse_single_record(raw_log[i])).timestamp
              = IF raw_log[i].eventTime = None THEN None
                ELSE ElemText(Some(Val(raw_log[i].eventTime).text))

\* The order of severities: info < warning < critical.
Rank(sev) == CASE sev = "info" -> 0 [] sev = "warning" -> 1
               [] sev = "critical" -> 2

\* C15: no step of a classification lowers the severity.
C15_SeverityNeverDecreases ==
    [][Rank(severity') >= Rank(severity)]_vars

\* C15's case: rules that only promote (temperature, DSP state) have run
\* after rule 1 made the severity critical.
C15_Witness ==
    /\ cpc = "done"
    /\ event.qot_degrade = Bool(TRUE)
    /\ event.temp = Num(782)
    /\ event.dsp_state = Str("slow")
    /\ severity = "critical"

\* No rule condition holds in the event: every field is absent, null or
\* within its range.
InRange(x, lo, hi) ==
    x = None \/ (Val(x).type = "float" /\ Val(x).n >= lo /\ Val(x).n <= hi)
Quiet(ev) ==
    /\ ev.qot_degrade # Bool(TRUE)
    /\ InRange(ev.rx, RX_LOW, 0)
    /\ InRange(ev.ber_pre, 0, BER_ELEVATED)
    /\ InRange(ev.snr, SNR_MARGINAL, 1000)
    /\ InRange(ev.temp, -TEMP_HIGH, TEMP_HIGH)
    /\ ev.dsp_state \in {None, Str("normal")}

\* C16: an event in which no rule condition holds is classified: it gets
\* severity info, is_abnormal false, health normal and the one cause "No
\* abnormal conditions detected.".
C16_QuietEventIsNormal ==
    Quiet(event)
    => /\ cpc # "raised"
       /\ cpc = "done"
          => /\ severity = "info"
             /\ is_abnormal = FALSE
             /\ health = "normal"
             /\ causes = <<"No abnormal conditions detected.">>

\* C16's case: the example event (rx -22.0, SNR 24.5, BER 2.1e-9, 52.0 C,
\* no degrade flag, DSP normal) has been classified.
C16_Witness ==
    /\ cpc = "done"
    /\ event = [rx |-> Num(-220), ber_pre |-> Num(21), snr |-> Num(245),
                temp |-> Num(520), qot_degrade |-> Bool(FALSE),
                dsp_state |-> Str("normal")]
    /\ health = "normal"

\* The degraded example event: rx -29.5, SNR 12.3, BER 5.2e-5, 78.2 C,
\* degrade flag set, DSP slow.
DegradedExample ==
    [rx |-> Num(-295), ber_pre |-> Num(520000), snr |-> Num(123),
     temp |-> Num(782), qot_degrade |-> Bool(TRUE),
     dsp_state |-> Str("slow")]

\* C17: the degraded example event is classified critical, PHY, abnormal,
\* major_issue, with at least 5 distinct causes.
C17_DegradedExampleIsMajor ==
    event = DegradedExample
    => /\ cpc # "raised"
       /\ cpc = "done"
          => /\ severity = "critical"
             /\ likely_layer = "PHY"
             /\ is_abnormal = TRUE
             /\ health = "major_issue"
             /\ Cardinality({causes[i] : i \in 1..Len(causes)}) >= 5

\* C17's case: the degraded example event has been classified.
C17_Witness == cpc = "done" /\ event = DegradedExample

\* C18: the returned health is normal when is_abnormal is false, else
\* major_issue when the severity is critical, else minor_issue.
C18_HealthFromAbnormalAndSeverity ==
    cpc = "done"
    => health = IF is_abnormal = FALSE THEN "normal"
                ELSE IF severity = "critical" THEN "major_issue"
                ELSE "minor_issue"

\* C18's case: an abnormal event below critical has been classified.
C18_Witness ==
    /\ cpc = "done"
    /\ is_abnormal = TRUE
    /\ severity = "warning"
    /\ health = "minor_issue"

\* C19: a classification always returns a result. Comparing a text with a
\* threshold raises TypeError, so the statement does not hold.
C19_ClassificationAlwaysReturns == cpc # "raised"

\* Every line written to the log file so far, oldest first.
AllWritten ==
    [i \in 1..(writes * RECORD_LINES) |->
        RecordLine(((i - 1) \div RECORD_LINES) + 1,
                   ((i - 1) % RECORD_LINES) + 1)]

\* C20: after any writes the file holds at most MAX_LINES lines, and they
\* are the most recent lines written. The inject functions append without
\* cutting, so the statement does not hold.
C20_StoreWithinLineBudget ==
    /\ Len(log_file) <= MAX_LINES
    /\ log_file = LastLines(AllWritten, MAX_LINES)

\* The complete records of a store content, oldest first: every opening
\* line that is followed by the rest of its notification.
CompleteRecords(content) ==
    LET starts == SelectSeq([i \in 1..Len(content) |-> i],
                     LAMBDA i :
                         /\ IsOpen(content[i])
                         /\ i + RECORD_LINES - 2 <= Len(content)
                         /\ WellFormed(SubSeq(content, i,
                                              i + RECORD_LINES - 2)))
    IN  [k \in 1..Len(starts) |->
            SubSeq(content, starts[k], starts[k] + RECORD_LINES - 2)]

\* The complete records a call with onu_id counts: all of them, or those
\* of the ONU.
Wanted(content, onu_id) ==
    IF onu_id = None THEN CompleteRecords(content)
    ELSE SelectSeq(CompleteRecords(content),
                   LAMBDA r : OnuOf(r[1][1]) = Val(onu_id))

\* C21: get_latest_netconf_records(count, onu_id) returns at most count
\* records, the most recent complete records of the store (of the ONU when
\* onu_id is given) in arrival order. count = 0 returns every record
\* (records[-0:]), and a store cut inside a record yields its closing line
\* as a record, so the statement does not hold.
C21_LatestAreMostRecent ==
    read_call.called
    => /\ Len(read_result) <= read_call.count
       /\ read_result = LastLines(Wanted(log_file, read_call.onu_id),
                                  read_call.count)

\* C22: a read that runs while append_to_log has the file open for writing
\* returns what a read before the append or a read after it returns. The
\* file is empty between open(LOG_FILE, "w") and the write, so the
\* statement does not hold.
C22_ReadSeesBeforeOrAfter ==
    (read_call.called /\ apc = "open")
    => \/ read_result = LatestRecords(before, read_call.count,
                                      read_call.onu_id)
       \/ read_result = LatestRecords(lines, read_call.count,
                                      read_call.onu_id)

\* The numbers of the records that are whole in the log file.
Present == {CompleteRecords(log_file)[k][1][1] :
               k \in 1..Len(CompleteRecords(log_file))}

\* C29: when no append_to_log is running, every record written so far is in
\* the file, unless the file is at its line budget and the record is older
\* than all it holds. append_to_log writes back what it read, so a record
\* injected in between is gone and the statement does not hold.
C29_NoRecordLost ==
    apc = "idle"
    => \A n \in 1..writes :
           \/ n \in Present
           \/ /\ Len(log_file) >= MAX_LINES
              /\ \A m \in Present : m > n

\* The numeric fields of the event are numbers or None.
WellTyped(ev) ==
    \A x \in {ev.rx, ev.ber_pre, ev.snr, ev.temp} :
        x = None \/ Val(x).type = "float"
\* The events that differ from ev in one field, in which every rule
\* condition of ev holds and one more.
FieldValues(f) ==
    CASE f = "rx" -> RxValues
      [] f = "ber_pre" -> BerValues
      [] f = "snr" -> SnrValues
      [] f = "temp" -> TempValues
      [] f = "qot_degrade" -> QotDegradeValues
      [] f = "dsp_state" -> DspValues
Worsened(ev) ==
    {e2 \in UNION {{[ev EXCEPT ![f] = v] : v \in FieldValues(f)} :
                      f \in DOMAIN ev} :
        /\ WellTyped(e2)
        /\ e2 # ev
        /\ Conditions(ev) \subseteq Conditions(e2)
        /\ Cardinality(Conditions(e2)) = Cardinality(Conditions(ev)) + 1}

\* C23: the severity returned for an event is the one the rules give in
\* turn, and an event that differs in one field so that one more rule
\* condition holds never gets a lower severity.
C23_SeverityMonotonic ==
    cpc = "done"
    => /\ severity = SeverityOf(event)
       /\ \A e2 \in Worsened(event) :
              Rank(SeverityOf(e2)) >= Rank(severity)

\* C23's case: a critical event (rx beyond the sensitivity threshold) has
\* been classified, and the same event with the DSP state degraded, whose
\* rule only promotes, is critical as well.
C23_Witness ==
    /\ cpc = "done"
    /\ event = [rx |-> Num(-295), ber_pre |-> Num(21), snr |-> Num(245),
                temp |-> Num(520), qot_degrade |-> Bool(FALSE),
                dsp_state |-> Str("normal")]
    /\ severity = "critical"
    /\ [event EXCEPT !.dsp_state = Str("slow")] \in Worsened(event)
    /\ SeverityOf([event EXCEPT !.dsp_state = Str("slow")]) = "critical"

\* The causes and the action the received-power rule adds.
LowPowerCause == "Low received optical power ({rx:.2f} dBm)."
BeyondCause == "Received optical power beyond sensitivity threshold."

\* C24: the step of the received-power rule on a number rx. Below -28 it
\* appends the low-power cause and then the beyond-sensitivity cause and
\* the severity becomes critical; from -28 up to (not including) -26.5 it
\* appends the low-power cause only and the severity is at least warning;
\* from -26.5 on it appends nothing and leaves severity and layer alone.
C24_ReceivedPowerRule ==
    [][(cpc = "rule2" /\ cpc' = "rule3" /\ IsNumber(event.rx))
       => LET rx == Val(event.rx).n
          IN  /\ rx < RX_CRITICAL
                 => /\ causes' = causes \o <<LowPowerCause, BeyondCause>>
                    /\ severity' = "critical"
              /\ (rx >= RX_CRITICAL /\ rx < RX_LOW)
                 => /\ causes' = Append(causes, LowPowerCause)
                    /\ Rank(severity') >= Rank("warning")
              /\ rx >= RX_LOW
                 => /\ causes' = causes
                    /\ severity' = severity
                    /\ likely_layer' = likely_layer
                    /\ actions' = actions
                    /\ notes' = notes]_vars

\* C24's case: the rule has run on rx = -28 exactly, which is low but not
\* beyond the sensitivity threshold.
C24_Witness ==
    /\ cpc = "rule3"
    /\ event.rx = Num(RX_CRITICAL)
    /\ causes = <<LowPowerCause>>
    /\ severity = "warning"

\* What rule 1 promises for the returned result.
DegradeResult ==
    /\ likely_layer = "PHY"
    /\ severity = "critical"
    /\ health = "major_issue"
    /\ actions # <<>>
    /\ causes # <<>>
    /\ causes[1] = "QoT degradation reported by ONU."

\* C25: when the event's qot_degrade is True, whatever its other fields
\* are, the call returns, with layer PHY, severity critical, health
\* major_issue, some action and the QoT cause first. A text in a numeric
\* field makes a later rule raise TypeError, so the statement does not
\* hold.
C25_DegradeFlagIsMajor ==
    event.qot_degrade = Bool(TRUE)
    => /\ cpc # "raised"
       /\ cpc = "done" => DegradeResult

\* The action added to an abnormal result that is not critical.
TrendAction == "Continue monitoring link quality trends."

\* C30: in the result for an event whose numeric fields are numbers or
\* None, is_abnormal is true exactly when the severity is not info and
\* exactly when the layer is PHY (it is Unknown otherwise); health is
\* minor_issue exactly when the severity is warning, and so is the presence
\* of the trend-monitoring action.
C30_ResultFieldsAgree ==
    (cpc = "done" /\ WellTyped(event))
    => /\ is_abnormal = TRUE <=> severity # "info"
       /\ is_abnormal = TRUE <=> likely_layer = "PHY"
       /\ likely_layer \in {"PHY", "Unknown"}
       /\ health = "minor_issue" <=> severity = "warning"
       /\ (\E i \in 1..Len(actions) : actions[i] = TrendAction)
          <=> severity = "warning"

\* C30's case: an event whose only condition is low received power, a rule
\* that sets the layer only when it is Unknown, has been classified.
C30_Witness ==
    /\ cpc = "done"
    /\ event = [rx |-> Num(-270), ber_pre |-> Num(21), snr |-> Num(245),
                temp |-> Num(520), qot_degrade |-> Bool(FALSE),
                dsp_state |-> Str("normal")]
    /\ is_abnormal = TRUE
    /\ likely_layer = "PHY"
    /\ actions[Len(actions)] = TrendAction

\* C26: a cycle whose batch has the first and the last record of the batch
\* the cycle before it fingerprinted ends Unchanged at has_new_data,
\* whatever lies between them: no parse, and data, captured_at, fingerprint
\* and cache file stay. A batch whose first or last record differs goes on
\* to parsing.
C26_FingerprintIsFirstAndLast ==
    [][\A w \in Workers :
         (pc[w] = "fingerprint" /\ pc'[w] # "fingerprint"
          /\ started' = started /\ lastBatch # None)
         => LET recs == records[w]
                prev == Val(lastBatch)
                sameEnds == /\ recs[1] = prev[1]
                            /\ recs[Len(recs)] = prev[Len(prev)]
            IN  /\ sameEnds => /\ outcome'[w] = "Unchanged"
                               /\ pc'[w] = "sleep"
                               /\ UNCHANGED <<global_parsed_cache,
                                              cache_timestamp, cache_file,
                                              last_processed_record_hash>>
                /\ ~sameEnds => pc'[w] = "parse"]_vars

\* C26's case: a cycle ended Unchanged over a batch of three records whose
\* middle record differs from its ends, and the cycle before it
\* fingerprinted another batch.
C26_Witness ==
    \E w \in Workers :
        /\ pc[w] = "sleep"
        /\ outcome[w] = "Unchanged"
        /\ ~repeat[w]
        /\ lastBatch # None
        /\ Len(Val(lastBatch)) = 3
        /\ Val(lastBatch)[2] # Val(lastBatch)[1]

\* C27: the batch a cycle parses and saves is the batch it fingerprinted:
\* when fetch_and_parse_with_agent hands back data, the batch it fetched
\* has the stored fingerprint. It fetches the store again (line 138), after
\* has_new_data stored the fingerprint of the first fetch, so a record
\* appended in between makes the two differ and the statement does not
\* hold.
C27_ParsedBatchIsFingerprinted ==
    [][\A w \in Workers :
         (pc[w] = "parse" /\ pc'[w] = "save" /\ started' = started)
         => /\ get_latest_netconf_records(FETCH_COUNT) = records[w]
            /\ last_processed_record_hash =
                 Some(compute_data_hash(
                        get_latest_netconf_records(FETCH_COUNT)))]_vars

\* C28: a batch whose parse gave no data is parsed again: the next cycle
\* that fingerprints the same batch goes on to parsing. has_new_data stored
\* the batch's fingerprint before the parse that failed, so that cycle ends
\* Unchanged and the statement does not hold.
C28_FailedParseIsRetried ==
    [][\A w \in Workers :
         (pc[w] = "fingerprint" /\ pc'[w] # "fingerprint"
          /\ started' = started /\ failedParse = Some(records[w]))
         => pc'[w] = "parse"]_vars

====
